---- MODULE Spec2Model ----
(***************************************************************************)
(* Model of the hagrid approval workflow (functions/approval-manager).     *)
(* The shared state is the two DynamoDB tables (access requests, approval  *)
(* messages) and the outbound effects (Slack DMs, okta-provisioner         *)
(* invocations).  Every Lambda invocation is a process whose steps are the *)
(* table reads and writes of its handler, in program order.                *)
(***************************************************************************)
EXTENDS Integers, Sequences, FiniteSets, TLC

\* ---------------------------------------------------------------- bounds
MaxRequests == 1      \* new_request invocations (one request id each)
MaxResponses == 3     \* approval_response invocations

\* ---------------------------------------------------------------- state
VARIABLES
  s3_catalog,    \* catalog.json in the S3 bucket
  catalog,       \* _okta_catalog_data: the catalog the handler process holds
  requests,      \* access requests table: request id -> item
  messages,      \* approval messages table: ticket id -> item
  dms,           \* approval DMs delivered to approvers (ticket ids)
  nr,            \* new_request invocations, one per request id
  hs,            \* approval_response invocations
  provisioned,   \* okta-provisioner invocations per request id
  notified,      \* "was denied" messages sent to the requester, per request
  eh,            \* event-handler invocations (Slack webhook requests)
  cm,            \* conversation-manager invocations
  processed_messages  \* _processed_messages of each conversation-manager process

\* The functions in front of the approval manager.
front == <<eh, cm, processed_messages>>

vars == <<s3_catalog, catalog, requests, messages, dms, nr, hs, provisioned,
          notified, eh, cm, processed_messages>>

\* One request id (uuid4) per new_request invocation, one handler per
\* approval_response invocation.
ReqIds == DOMAIN nr
Handlers == DOMAIN hs

NoItem == [status |-> "absent"]

\* ---------------------------------------------------------------- names
\* A name is a sequence of characters; str.lower() maps each character.
LowerChar(c) ==
  CASE c = "A" -> "a"
    [] c = "D" -> "d"
    [] c = "O" -> "o"
    [] c = "Q" -> "q"
    [] c = "R" -> "r"
    [] c = "S" -> "s"
    [] c = "W" -> "w"
    [] OTHER -> c

\* Mutant: the names are compared as they are written.
Lower_AsWritten(s) == s

Lower(s) == [i \in DOMAIN s |-> LowerChar(s[i])]

\* ---------------------------------------------------------------- catalog
\* catalog.json as written by the catalog builder: applications, each with
\* roles, each with an approval block.  Catalog is the initial content.
Catalog ==
  << [app_name |-> <<"A", "w", "s">>,
      roles |-> <<
        [role_name |-> <<"D", "e", "v">>, group_id |-> "g_dev",
         approval |-> [type |-> "MANUAL", logic |-> "ANY", threshold |-> 2,
                       approver_emails |-> <<"a", "b", "c">>]],
        [role_name |-> <<"O", "p", "s">>, group_id |-> "g_ops",
         approval |-> [type |-> "ACCOUNT_ID", logic |-> "ALL", threshold |-> 0,
                       approver_emails |-> <<"a", "b">>]],
        [role_name |-> <<"R", "o">>, group_id |-> "g_ro",
         approval |-> [type |-> "NONE", logic |-> "ANY", threshold |-> 1,
                       approver_emails |-> <<>>]],
        [role_name |-> <<"Q", "a">>, group_id |-> "g_qa",
         approval |-> [type |-> "MANUAL", logic |-> "ANY", threshold |-> 1,
                       approver_emails |-> <<"a">>]]
      >>] >>

NoRole == [role_name |-> <<>>, group_id |-> "none",
           approval |-> [type |-> "NONE", logic |-> "ANY", threshold |-> 0,
                         approver_emails |-> <<>>]]

\* The (app, role) pairs a new_request event may carry.
RequestInputs ==
  { [app |-> <<"A", "w", "s">>, role |-> <<"D", "e", "v">>],
    [app |-> <<"a", "w", "s">>, role |-> <<"o", "p", "s">>],
    [app |-> <<"A", "w", "s">>, role |-> <<"R", "o">>],
    [app |-> <<"A", "w", "s">>, role |-> <<"Q", "a">>],
    [app |-> <<"A", "w", "s">>, role |-> <<"Q", "q">>] }

MaxApprovers == 3
TicketIds == ReqIds \X (1..MaxApprovers)

\* get_role_config: first role of the first application that match, ignoring
\* case; NoRole stands for None.
MatchingRoles(app, role_name) ==
  { r \in DOMAIN app.roles : Lower(app.roles[r].role_name) = Lower(role_name) }

MatchingApps(app_name, role_name) ==
  { a \in DOMAIN catalog :
      /\ Lower(catalog[a].app_name) = Lower(app_name)
      /\ MatchingRoles(catalog[a], role_name) # {} }

Min(S) == CHOOSE x \in S : \A y \in S : x <= y

\* Mutant: the role name is not compared, the application's first role is
\* returned.
get_role_config_AnyRole(app_name, role_name) ==
  LET apps == { a \in DOMAIN catalog :
                  /\ Lower(catalog[a].app_name) = Lower(app_name)
                  /\ Len(catalog[a].roles) > 0 }
  IN IF apps = {} THEN NoRole ELSE catalog[Min(apps)].roles[1]

get_role_config(app_name, role_name) ==
  IF MatchingApps(app_name, role_name) = {}
  THEN NoRole
  ELSE LET a == Min(MatchingApps(app_name, role_name))
       IN catalog[a].roles[Min(MatchingRoles(catalog[a], role_name))]

\* Mutant: logic ALL is not looked at, the threshold rule is used for both.
RequiredApprovals_IgnoreLogic(approval) ==
  IF approval.type = "NONE" THEN 0
  ELSE IF approval.type = "MANAGER" THEN 1
  ELSE IF approval.threshold > 0 THEN approval.threshold ELSE 1

\* Mutant: type BOTH adds one approval, the manager's, to the designated count.
RequiredApprovals_ManagerSlot(approval) ==
  IF approval.type = "NONE" THEN 0
  ELSE IF approval.type = "MANAGER" THEN 1
  ELSE IF approval.type = "BOTH"
       THEN 1 + (IF approval.logic = "ALL"
                 THEN IF Len(approval.approver_emails) > 0
                      THEN Len(approval.approver_emails) ELSE 1
                 ELSE IF approval.threshold > 0 THEN approval.threshold ELSE 1)
  ELSE IF approval.type \in {"MANUAL", "ACCOUNT_ID"}
       THEN IF approval.logic = "ALL"
            THEN IF Len(approval.approver_emails) > 0
                 THEN Len(approval.approver_emails) ELSE 1
            ELSE IF approval.threshold > 0 THEN approval.threshold ELSE 1
  ELSE IF approval.threshold > 0 THEN approval.threshold ELSE 1

\* process_new_request, "Determine required approvals based on type and logic"
RequiredApprovals(approval) ==
  IF approval.type = "NONE" THEN 0
  ELSE IF approval.type = "MANAGER" THEN 1
  ELSE IF approval.type \in {"BOTH", "MANUAL", "ACCOUNT_ID"}
       THEN IF approval.logic = "ALL"
            THEN IF Len(approval.approver_emails) > 0
                 THEN Len(approval.approver_emails) ELSE 1
            ELSE IF approval.threshold > 0 THEN approval.threshold ELSE 1
  ELSE IF approval.threshold > 0 THEN approval.threshold ELSE 1

\* ---------------------------------------------------------------- helpers
Contains(seq, x) == \E i \in DOMAIN seq : seq[i] = x

Range(seq) == { seq[i] : i \in DOMAIN seq }

\* Mutant: the membership test of lines 305 / 311 is missing.
AppendIfAbsent_Always(seq, x) == Append(seq, x)

\* "if approver_email not in approvals: approvals.append(approver_email)"
AppendIfAbsent(seq, x) == IF Contains(seq, x) THEN seq ELSE Append(seq, x)

\* Mutant: the threshold is evaluated against the policy the catalog holds
\* now for the request's group, not against the fields stored in the item.
LiveApproval(group_id) ==
  LET hits == { ar \in { <<a, ro>> : a \in DOMAIN catalog, ro \in 1..4 } :
                  /\ ar[2] \in DOMAIN catalog[ar[1]].roles
                  /\ catalog[ar[1]].roles[ar[2]].group_id = group_id }
      hit == CHOOSE ar \in hits : TRUE
  IN catalog[hit[1]].roles[hit[2]].approval

check_approval_threshold_Live(request) ==
  IF request = NoItem THEN "pending"
  ELSE IF request.denials_received # <<>> THEN "denied"
  ELSE IF LiveApproval(request.group_id).type = "NONE" THEN "approved"
  ELSE IF Len(request.approvals_received)
            >= RequiredApprovals(LiveApproval(request.group_id))
       THEN "approved"
  ELSE "pending"

\* Mutant: the approvals are counted before the denials are looked at.
check_approval_threshold_ApprovalsFirst(request) ==
  IF request = NoItem THEN "pending"
  ELSE IF request.approval_type = "NONE" THEN "approved"
  ELSE IF Len(request.approvals_received) >= request.required_approvals
       THEN "approved"
  ELSE IF request.denials_received # <<>> THEN "denied"
  ELSE "pending"

\* Mutant: the comparison of line 361 is strict.
check_approval_threshold_Strict(request) ==
  IF request = NoItem THEN "pending"
  ELSE IF request.denials_received # <<>> THEN "denied"
  ELSE IF request.approval_type = "NONE" THEN "approved"
  ELSE IF Len(request.approvals_received) > request.required_approvals
       THEN "approved"
  ELSE "pending"

\* check_approval_threshold on the item it has just read
check_approval_threshold(request) ==
  IF request = NoItem THEN "pending"
  ELSE IF request.denials_received # <<>> THEN "denied"
  ELSE IF request.approval_type = "NONE" THEN "approved"
  ELSE IF Len(request.approvals_received) >= request.required_approvals
       THEN "approved"
  ELSE "pending"

\* ---------------------------------------------------------------- events
\* The event lambda_handler receives.  A field that is absent, None or empty
\* is "" (<<>> for the names and for action_value).  action_value is the
\* button value split at ':' (line 507): <<request id, message id>> when it
\* has the form the approval DM was built with (lines 466-467).
NoEvent == [type |-> "none", user_id |-> "", channel |-> "", app |-> <<>>,
            role |-> <<>>, action_id |-> "", action_value |-> <<>>,
            response_url |-> ""]

\* The new_request event for (app, role), with all its fields (lines 581-588).
NewRequestEvent(inp) ==
  [NoEvent EXCEPT !.type = "new_request", !.user_id = "u", !.channel = "D",
                  !.app = inp.app, !.role = inp.role]

\* The approval_response event of user clicking button act of the DM of
\* ticket t (event-handler lines 89-99).
ClickEvent(t, act, user) ==
  [NoEvent EXCEPT !.type = "approval_response", !.user_id = user,
                  !.action_id = act, !.action_value = t,
                  !.response_url = "url"]

\* ---------------------------------------------------------------- initial state
NoInput == [app |-> <<>>, role |-> <<>>]

\* stale: the catalog the invocation used was not the one in the bucket.
IdleNr == [pc |-> "idle", inp |-> NoInput, role |-> NoRole, i |-> 0,
           sent_count |-> 0, outcome |-> "none", stale |-> FALSE,
           event |-> NoEvent]

\* wrote: the item the invocation's own vote write produced, until it is
\* evaluated.
IdleH == [pc |-> "idle", ticket |-> <<0, 0>>, action |-> "none",
          rd |-> <<>>, wrote |-> NoItem, result |-> "none", ack |-> "none",
          event |-> NoEvent]

\* Empty tables, nreq new_request and nresp approval_response invocations
\* still to arrive.
\* No webhook request and no conversation message has arrived.
FrontIdle ==
  /\ eh = <<>>
  /\ cm = <<>>
  /\ processed_messages = <<>>

InitWith(cat, nreq, nresp) ==
  /\ FrontIdle
  /\ s3_catalog = cat
  /\ catalog = cat
  /\ nr = [r \in 1..nreq |-> IdleNr]
  /\ hs = [h \in 1..nresp |-> IdleH]
  /\ requests = [r \in 1..nreq |-> NoItem]
  /\ messages = [t \in (1..nreq) \X (1..MaxApprovers) |-> NoItem]
  /\ dms = {}
  /\ provisioned = [r \in 1..nreq |-> 0]
  /\ notified = [r \in 1..nreq |-> 0]

Init == InitWith(Catalog, MaxRequests, MaxResponses)

\* ------------------------------------------------ process_new_request
\* Lines 372-415: resolve the role and compute the required approvals.
NStartEv(r, ev) ==
  /\ nr[r].pc = "idle"
  /\ \A q \in ReqIds : q < r => nr[q].pc # "idle"
  /\ ev.type = "new_request"
  /\ ev.user_id # "" /\ ev.channel # "" /\ ev.app # <<>> /\ ev.role # <<>>
  /\ LET inp == [app |-> ev.app, role |-> ev.role]
         role_config == get_role_config(inp.app, inp.role)
     IN IF role_config = NoRole
        THEN nr' = [nr EXCEPT ![r] = [@ EXCEPT !.pc = "done", !.inp = inp,
                                                 !.event = ev,
                                                 !.stale = s3_catalog # catalog,
                                                 !.outcome = "role_not_found"]]
        ELSE nr' = [nr EXCEPT ![r] = [@ EXCEPT !.pc = "create", !.inp = inp,
                                                 !.event = ev,
                                                 !.stale = s3_catalog # catalog,
                                                 !.role = role_config]]
  /\ UNCHANGED <<front, s3_catalog, catalog, requests, messages, dms, hs, provisioned, notified>>

\* A new_request event for (app, role) with all its fields.
NStart(r, inp) == NStartEv(r, NewRequestEvent(inp))

\* create_access_request: the item put into the requests table
create_access_request(role_config) ==
  [status |-> "pending",
   group_id |-> role_config.group_id,
   approval_type |-> role_config.approval.type,
   required_approvals |-> RequiredApprovals(role_config.approval),
   approver_emails |-> role_config.approval.approver_emails,
   approvals_received |-> <<>>,
   denials_received |-> <<>>]

\* Mutant: the NONE branch of line 432 is missing.
AfterCreate_AlwaysDispatch(r) ==
  [nr[r] EXCEPT !.pc = "dispatch", !.i = 1]

AfterCreate(r) ==
  IF nr[r].role.approval.type = "NONE"
  THEN [nr[r] EXCEPT !.pc = "auto_approve"]
  ELSE [nr[r] EXCEPT !.pc = "dispatch", !.i = 1]

\* Lines 417-430
NCreate(r) ==
  /\ nr[r].pc = "create"
  /\ requests' = [requests EXCEPT ![r] = create_access_request(nr[r].role)]
  /\ nr' = [nr EXCEPT ![r] = AfterCreate(r)]
  /\ UNCHANGED <<front, s3_catalog, catalog, messages, dms, hs, provisioned, notified>>

\* update_request_status(request_id, status) without a vote: read the item,
\* give up if it is missing, else SET status.
SetStatus(r, status) ==
  IF requests[r] = NoItem THEN requests
  ELSE [requests EXCEPT ![r] = [@ EXCEPT !.status = status]]

\* Lines 432-434
NAutoApprove(r) ==
  /\ nr[r].pc = "auto_approve"
  /\ requests' = SetStatus(r, "approved")
  /\ nr' = [nr EXCEPT ![r] = [@ EXCEPT !.pc = "invoke"]]
  /\ UNCHANGED <<front, s3_catalog, catalog, messages, dms, hs, provisioned, notified>>

\* Lines 436-446
NInvoke(r) ==
  /\ nr[r].pc = "invoke"
  /\ provisioned' = [provisioned EXCEPT ![r] = @ + 1]
  /\ nr' = [nr EXCEPT ![r] = [@ EXCEPT !.pc = "done", !.outcome = "created"]]
  /\ UNCHANGED <<front, s3_catalog, catalog, requests, messages, dms, hs, notified>>

\* create_approval_message: the item put into the approval messages table
create_approval_message(r, approver_email) ==
  [status |-> "pending", request_id |-> r, approver_email |-> approver_email,
   handled_by |-> "none"]

\* send_approval_requests, one iteration of the loop (lines 458-488) for an
\* approver who is found and whose DM is delivered.
NDispatch(r) ==
  /\ nr[r].pc = "dispatch"
  /\ nr[r].i <= Len(nr[r].role.approval.approver_emails)
  /\ LET i == nr[r].i
         approver_email == nr[r].role.approval.approver_emails[i]
     IN /\ dms' = dms \cup {<<r, i>>}
        /\ messages' = [messages EXCEPT
                          ![<<r, i>>] = create_approval_message(r, approver_email)]
        /\ nr' = [nr EXCEPT ![r] = [@ EXCEPT !.i = i + 1,
                                              !.sent_count = @ + 1]]
  /\ UNCHANGED <<front, s3_catalog, catalog, requests, hs, provisioned, notified>>

\* send_approval_requests, one iteration of the loop for an approver whose
\* Slack user is not found (lines 459-463) or whose DM is not delivered
\* (send_approval_dm returns None, line 480): nothing is recorded or counted.
NDispatchSkip(r) ==
  /\ nr[r].pc = "dispatch"
  /\ nr[r].i <= Len(nr[r].role.approval.approver_emails)
  /\ nr' = [nr EXCEPT ![r] = [@ EXCEPT !.i = @ + 1]]
  /\ UNCHANGED <<front, s3_catalog, catalog, requests, messages, dms, hs, provisioned, notified>>

\* Mutant: the approvers tried are counted, not the DMs recorded.
NDispatchEnd_CountsTried(r) ==
  /\ nr[r].pc = "dispatch"
  /\ nr[r].i > Len(nr[r].role.approval.approver_emails)
  /\ nr' = [nr EXCEPT ![r] = [@ EXCEPT
              !.pc = "done", !.i = 0,
              !.outcome = IF nr[r].i > 1 THEN "sent" ELSE "no_approvers"]]
  /\ UNCHANGED <<front, s3_catalog, catalog, requests, messages, dms, hs, provisioned, notified>>

\* send_approval_requests, after the loop (lines 490-494)
NDispatchEnd(r) ==
  /\ nr[r].pc = "dispatch"
  /\ nr[r].i > Len(nr[r].role.approval.approver_emails)
  /\ nr' = [nr EXCEPT ![r] = [@ EXCEPT
              !.pc = "done", !.i = 0,
              !.outcome = IF nr[r].sent_count > 0 THEN "sent"
                          ELSE "no_approvers"]]
  /\ UNCHANGED <<front, s3_catalog, catalog, requests, messages, dms, hs, provisioned, notified>>

\* ------------------------------------------------ handle_approval_response
TicketRequest(t) == t[1]

\* The Slack user who received the DM of ticket t: get_requester_email of the
\* clicking user is the approver the DM was sent to.
TicketApprover(t) == nr[t[1]].role.approval.approver_emails[t[2]]

\* Line 509: approver_email = get_requester_email(user_id), the e-mail of
\* the user named in the event.
ApproverOf(h) == hs[h].event.user_id

\* Lines 514-520: unconditional SET status = 'clicked', handled_by = user
\* (update_item creates the item when it does not exist).
MarkClicked(item, user) ==
  IF item = NoItem
  THEN [status |-> "clicked", request_id |-> 0, approver_email |-> "none",
        handled_by |-> user]
  ELSE [item EXCEPT !.status = "clicked", !.handled_by = user]

\* Lines 507-520: an approval_response event with all its fields, whose
\* value names a delivered DM, arrives.
HStartAs(h, ev) ==
  /\ hs[h].pc = "idle"
  /\ \A g \in Handlers : g < h => hs[g].pc # "idle"
  /\ ev.type = "approval_response"
  /\ ev.user_id # "" /\ ev.action_id # "" /\ ev.response_url # ""
  /\ ev.action_value \in dms
  /\ hs' = [hs EXCEPT ![h] = [@ EXCEPT !.pc = "get_request",
                                        !.ticket = ev.action_value,
                                        !.action = ev.action_id,
                                        !.event = ev]]
  /\ messages' = [messages EXCEPT
       ![ev.action_value] = MarkClicked(@, ev.user_id)]
  /\ UNCHANGED <<front, s3_catalog, catalog, requests, dms, nr, provisioned, notified>>

\* The click of the approver the DM of ticket t was sent to.
HStart(h, t, act) ==
  /\ t \in dms
  /\ HStartAs(h, ClickEvent(t, act, TicketApprover(t)))

Finish(h, ack) == [hs[h] EXCEPT !.pc = "done", !.ack = ack, !.rd = <<>>]

\* Lines 522-536: read the request and reject what needs no vote.
HGetRequest(h) ==
  /\ hs[h].pc = "get_request"
  /\ LET request == requests[TicketRequest(hs[h].ticket)]
         approver_email == ApproverOf(h)
     IN hs' = [hs EXCEPT ![h] =
          IF request = NoItem THEN Finish(h, "no_longer_exists")
          ELSE IF request.status # "pending" THEN Finish(h, "already_decided")
          ELSE IF \/ Contains(request.approvals_received, approver_email)
                  \/ Contains(request.denials_received, approver_email)
               THEN Finish(h, "already_responded")
          ELSE [@ EXCEPT !.pc = "vote_read"]]
  /\ UNCHANGED <<front, s3_catalog, catalog, requests, messages, dms, nr, provisioned, notified>>

\* update_request_status lines 295-314: read the item and build the new list.
HVoteRead(h) ==
  /\ hs[h].pc = "vote_read"
  /\ LET request == requests[TicketRequest(hs[h].ticket)]
         approver_email == ApproverOf(h)
     IN hs' = [hs EXCEPT ![h] = [@ EXCEPT
          !.pc = "vote_write",
          !.rd = IF hs[h].action = "approve_request"
                 THEN AppendIfAbsent(request.approvals_received, approver_email)
                 ELSE AppendIfAbsent(request.denials_received, approver_email)]]
  /\ UNCHANGED <<front, s3_catalog, catalog, requests, messages, dms, nr, provisioned, notified>>

\* update_request_status lines 316-321: the item after the unconditional SET
update_request_status(item, status, action, list) ==
  IF action = "approve_request"
  THEN [item EXCEPT !.status = status, !.approvals_received = list]
  ELSE [item EXCEPT !.status = status, !.denials_received = list]

\* Lines 539-540 / 544-545: the write of the vote and the acknowledgement.
HVoteWrite(h) ==
  /\ hs[h].pc = "vote_write"
  /\ LET r == TicketRequest(hs[h].ticket)
         approve == hs[h].action = "approve_request"
     IN /\ requests' = [requests EXCEPT ![r] =
              update_request_status(@, IF approve THEN "pending" ELSE "denied",
                                    hs[h].action, hs[h].rd)]
        /\ hs' = [hs EXCEPT ![h] = [@ EXCEPT
              !.pc = IF approve THEN "check" ELSE "notify_denied",
              !.ack = IF approve THEN "you_approved" ELSE "you_denied",
              !.rd = <<>>,
              !.wrote = requests'[r]]]
  /\ UNCHANGED <<front, s3_catalog, catalog, messages, dms, nr, provisioned, notified>>

\* Line 548: tell the requester about the denial.
HNotifyDenied(h) ==
  /\ hs[h].pc = "notify_denied"
  /\ notified' = [notified EXCEPT ![TicketRequest(hs[h].ticket)] = @ + 1]
  /\ hs' = [hs EXCEPT ![h] = [@ EXCEPT !.pc = "done", !.wrote = NoItem]]
  /\ UNCHANGED <<front, s3_catalog, catalog, requests, messages, dms, nr, provisioned>>

\* Lines 551-553: re-read the request and evaluate the threshold.
HCheck(h) ==
  /\ hs[h].pc = "check"
  /\ LET result == check_approval_threshold(requests[TicketRequest(hs[h].ticket)])
     IN hs' = [hs EXCEPT ![h] = [@ EXCEPT
          !.pc = IF result = "approved" THEN "approved_write" ELSE "done",
          !.wrote = NoItem,
          !.result = result]]
  /\ UNCHANGED <<front, s3_catalog, catalog, requests, messages, dms, nr, provisioned, notified>>

\* Line 554: update_request_status(request_id, 'approved')
HApprovedWrite(h) ==
  /\ hs[h].pc = "approved_write"
  /\ requests' = SetStatus(TicketRequest(hs[h].ticket), "approved")
  /\ hs' = [hs EXCEPT ![h] = [@ EXCEPT !.pc = "invoke"]]
  /\ UNCHANGED <<front, s3_catalog, catalog, messages, dms, nr, provisioned, notified>>

\* Lines 556-570: tell the requester and invoke the okta-provisioner.
HInvoke(h) ==
  /\ hs[h].pc = "invoke"
  /\ provisioned' = [provisioned EXCEPT ![TicketRequest(hs[h].ticket)] = @ + 1]
  /\ hs' = [hs EXCEPT ![h] = [@ EXCEPT !.pc = "done"]]
  /\ UNCHANGED <<front, s3_catalog, catalog, requests, messages, dms, nr, notified>>

\* ---------------------------------------------------------------- spec
Actions == {"approve_request", "deny_request"}

Next ==
  \/ \E r \in ReqIds, inp \in RequestInputs : NStart(r, inp)
  \/ \E r \in ReqIds : NCreate(r)
  \/ \E r \in ReqIds : NAutoApprove(r)
  \/ \E r \in ReqIds : NInvoke(r)
  \/ \E r \in ReqIds : NDispatch(r)
  \/ \E r \in ReqIds : NDispatchSkip(r)
  \/ \E r \in ReqIds : NDispatchEnd(r)
  \/ \E h \in Handlers, t \in TicketIds, act \in Actions : HStart(h, t, act)
  \/ \E h \in Handlers : HGetRequest(h)
  \/ \E h \in Handlers : HVoteRead(h)
  \/ \E h \in Handlers : HVoteWrite(h)
  \/ \E h \in Handlers : HNotifyDenied(h)
  \/ \E h \in Handlers : HCheck(h)
  \/ \E h \in Handlers : HApprovedWrite(h)
  \/ \E h \in Handlers : HInvoke(h)

Spec == Init /\ [][Next]_vars

\* ------------------------------------------- workflow with catalog edits
\* The whole workflow while the catalog in S3 is replaced by a new build in
\* which every role has another approval block.
FlowRequests == 1     \* new_request invocations
FlowResponses == 1    \* approval_response invocations

EditedCatalog ==
  << [app_name |-> <<"A", "w", "s">>,
      roles |-> <<
        [role_name |-> <<"D", "e", "v">>, group_id |-> "g_dev",
         approval |-> [type |-> "MANUAL", logic |-> "ANY", threshold |-> 1,
                       approver_emails |-> <<"a">>]],
        [role_name |-> <<"O", "p", "s">>, group_id |-> "g_ops",
         approval |-> [type |-> "ACCOUNT_ID", logic |-> "ANY", threshold |-> 1,
                       approver_emails |-> <<"a", "b">>]],
        [role_name |-> <<"R", "o">>, group_id |-> "g_ro",
         approval |-> [type |-> "MANUAL", logic |-> "ANY", threshold |-> 1,
                       approver_emails |-> <<"a">>]],
        [role_name |-> <<"Q", "a">>, group_id |-> "g_qa",
         approval |-> [type |-> "NONE", logic |-> "ANY", threshold |-> 1,
                       approver_emails |-> <<>>]]
      >>] >>

\* A new catalog.json is put into the bucket, and the invocations that follow
\* run in processes that load it (cold starts).
CatalogEdit ==
  /\ catalog = Catalog
  /\ s3_catalog' = EditedCatalog
  /\ catalog' = EditedCatalog
  /\ UNCHANGED <<front, requests, messages, dms, nr, hs, provisioned, notified>>

InitFlow == InitWith(Catalog, FlowRequests, FlowResponses)

\* Every approver of a request is reached here; the requests whose DMs are
\* not delivered are those of SpecNew.
NextFlow ==
  \/ \E r \in ReqIds, inp \in RequestInputs : NStart(r, inp)
  \/ \E r \in ReqIds : NCreate(r)
  \/ \E r \in ReqIds : NAutoApprove(r)
  \/ \E r \in ReqIds : NInvoke(r)
  \/ \E r \in ReqIds : NDispatch(r)
  \/ \E r \in ReqIds : NDispatchEnd(r)
  \/ \E h \in Handlers, t \in TicketIds, act \in Actions : HStart(h, t, act)
  \/ \E h \in Handlers : HGetRequest(h)
  \/ \E h \in Handlers : HVoteRead(h)
  \/ \E h \in Handlers : HVoteWrite(h)
  \/ \E h \in Handlers : HNotifyDenied(h)
  \/ \E h \in Handlers : HCheck(h)
  \/ \E h \in Handlers : HApprovedWrite(h)
  \/ \E h \in Handlers : HInvoke(h)
  \/ CatalogEdit

SpecFlow == InitFlow /\ [][NextFlow]_vars

\* ------------------------------------------- failing outbound effects
\* The workflow when Slack calls and okta-provisioner invocations may fail.
\* send_slack_api swallows its exception and returns ok = False (lines
\* 152-154); an exception of lambda_client.invoke ends the invocation.

\* Lines 436-445: lambda_client.invoke raises in the auto-approve path.
NInvokeFail(r) ==
  /\ nr[r].pc = "invoke"
  /\ nr' = [nr EXCEPT ![r] = [@ EXCEPT !.pc = "failed",
                                        !.outcome = "invoke_failed"]]
  /\ UNCHANGED <<front, s3_catalog, catalog, requests, messages, dms, hs, provisioned,
                 notified>>

\* Lines 540 / 545: update_approval_message does not reach Slack.
HPromptFail(h) ==
  /\ hs[h].pc \in {"check", "notify_denied"}
  /\ hs[h].ack \in {"you_approved", "you_denied"}
  /\ hs' = [hs EXCEPT ![h] = [@ EXCEPT !.ack = "lost"]]
  /\ UNCHANGED <<front, s3_catalog, catalog, requests, messages, dms, nr, provisioned,
                 notified>>

\* Line 548: send_slack_message returns False, the requester is not told.
HNotifyDeniedFail(h) ==
  /\ hs[h].pc = "notify_denied"
  /\ hs' = [hs EXCEPT ![h] = [@ EXCEPT !.pc = "done", !.wrote = NoItem]]
  /\ UNCHANGED <<front, s3_catalog, catalog, requests, messages, dms, nr, provisioned,
                 notified>>

\* Mutant: the failed invocation puts the request back to pending.
HInvokeFail_Rollback(h) ==
  /\ hs[h].pc = "invoke"
  /\ requests' = SetStatus(TicketRequest(hs[h].ticket), "pending")
  /\ hs' = [hs EXCEPT ![h] = [@ EXCEPT !.pc = "failed"]]
  /\ UNCHANGED <<front, s3_catalog, catalog, messages, dms, nr, provisioned, notified>>

\* Lines 561-570: lambda_client.invoke raises after the approved write.
HInvokeFail(h) ==
  /\ hs[h].pc = "invoke"
  /\ hs' = [hs EXCEPT ![h] = [@ EXCEPT !.pc = "failed"]]
  /\ UNCHANGED <<front, s3_catalog, catalog, requests, messages, dms, nr, provisioned,
                 notified>>

InitEffects == InitWith(Catalog, FlowRequests, FlowResponses)

NextEffects ==
  \/ \E r \in ReqIds, inp \in RequestInputs : NStart(r, inp)
  \/ \E r \in ReqIds : NCreate(r)
  \/ \E r \in ReqIds : NAutoApprove(r)
  \/ \E r \in ReqIds : NInvoke(r)
  \/ \E r \in ReqIds : NInvokeFail(r)
  \/ \E r \in ReqIds : NDispatch(r)
  \/ \E r \in ReqIds : NDispatchEnd(r)
  \/ \E h \in Handlers, t \in TicketIds, act \in Actions : HStart(h, t, act)
  \/ \E h \in Handlers : HGetRequest(h)
  \/ \E h \in Handlers : HVoteRead(h)
  \/ \E h \in Handlers : HVoteWrite(h)
  \/ \E h \in Handlers : HPromptFail(h)
  \/ \E h \in Handlers : HNotifyDenied(h)
  \/ \E h \in Handlers : HNotifyDeniedFail(h)
  \/ \E h \in Handlers : HCheck(h)
  \/ \E h \in Handlers : HApprovedWrite(h)
  \/ \E h \in Handlers : HInvoke(h)
  \/ \E h \in Handlers : HInvokeFail(h)

SpecEffects == InitEffects /\ [][NextEffects]_vars

\* ------------------------------------------- approvals under fair scheduling
\* Every response is an approve click; an invocation that has started runs
\* to its end (Lambda runs each invocation without waiting for another).
LiveRequests == 1     \* new_request invocations
LiveResponses == 2    \* approval_response invocations

InitLive == InitWith(Catalog, LiveRequests, LiveResponses)

NStep(r) ==
  \/ NCreate(r)
  \/ NAutoApprove(r)
  \/ NInvoke(r)
  \/ NDispatch(r)
  \/ NDispatchEnd(r)

HStep(h) ==
  \/ HGetRequest(h)
  \/ HVoteRead(h)
  \/ HVoteWrite(h)
  \/ HCheck(h)
  \/ HApprovedWrite(h)
  \/ HInvoke(h)

NextLive ==
  \/ \E r \in ReqIds, inp \in RequestInputs : NStart(r, inp)
  \/ \E r \in ReqIds : NStep(r)
  \/ \E h \in Handlers, t \in TicketIds : HStart(h, t, "approve_request")
  \/ \E h \in Handlers : HStep(h)

FairLive ==
  /\ \A r \in 1..LiveRequests : WF_vars(NStep(r))
  /\ \A h \in 1..LiveResponses : WF_vars(HStep(h))

SpecLive == InitLive /\ [][NextLive]_vars /\ FairLive

\* ------------------------------------------- failing table writes
\* The workflow when put_item on a table may raise: create_access_request and
\* create_approval_message catch the exception and return False, and their
\* callers do not look at the return value.
TableRequests == 1    \* new_request invocations
TableResponses == 1   \* approval_response invocations

\* Lines 248-254 and 419-432: the request item is not stored, the invocation
\* goes on.
NCreateFail(r) ==
  /\ nr[r].pc = "create"
  /\ nr' = [nr EXCEPT ![r] = AfterCreate(r)]
  /\ UNCHANGED <<front, s3_catalog, catalog, requests, messages, dms, hs, provisioned,
                 notified>>

\* Lines 470-488 and 271-277: the DM is delivered, the tracking item is not
\* stored, the DM is counted.
NDispatchPutFail(r) ==
  /\ nr[r].pc = "dispatch"
  /\ nr[r].i <= Len(nr[r].role.approval.approver_emails)
  /\ dms' = dms \cup {<<r, nr[r].i>>}
  /\ nr' = [nr EXCEPT ![r] = [@ EXCEPT !.i = @ + 1, !.sent_count = @ + 1]]
  /\ UNCHANGED <<front, s3_catalog, catalog, requests, messages, hs, provisioned,
                 notified>>

\* update_request_status lines 316-326 with update_item raising: the exception
\* is caught, False is returned, and lines 539-540 / 544-545 go on to the
\* acknowledgement.
HVoteWriteFail(h) ==
  /\ hs[h].pc = "vote_write"
  /\ LET approve == hs[h].action = "approve_request"
     IN hs' = [hs EXCEPT ![h] = [@ EXCEPT
              !.pc = IF approve THEN "check" ELSE "notify_denied",
              !.ack = IF approve THEN "you_approved" ELSE "you_denied",
              !.rd = <<>>]]
  /\ UNCHANGED <<front, s3_catalog, catalog, requests, messages, dms, nr,
                 provisioned, notified>>

InitTable == InitWith(Catalog, TableRequests, TableResponses)

NextTable ==
  \/ \E r \in ReqIds, inp \in RequestInputs : NStart(r, inp)
  \/ \E r \in ReqIds : NCreate(r)
  \/ \E r \in ReqIds : NCreateFail(r)
  \/ \E r \in ReqIds : NAutoApprove(r)
  \/ \E r \in ReqIds : NInvoke(r)
  \/ \E r \in ReqIds : NDispatch(r)
  \/ \E r \in ReqIds : NDispatchPutFail(r)
  \/ \E r \in ReqIds : NDispatchSkip(r)
  \/ \E r \in ReqIds : NDispatchEnd(r)
  \/ \E h \in Handlers, t \in TicketIds, act \in Actions : HStart(h, t, act)
  \/ \E h \in Handlers : HGetRequest(h)
  \/ \E h \in Handlers : HVoteRead(h)
  \/ \E h \in Handlers : HVoteWrite(h)
  \/ \E h \in Handlers : HVoteWriteFail(h)
  \/ \E h \in Handlers : HNotifyDenied(h)
  \/ \E h \in Handlers : HCheck(h)
  \/ \E h \in Handlers : HApprovedWrite(h)
  \/ \E h \in Handlers : HInvoke(h)

SpecTable == InitTable /\ [][NextTable]_vars

\* ------------------------------------------- responses to one request
\* The responses to one request that process_new_request has created and
\* sent to every approver of its role.
VoteResponses == 2    \* approval_response invocations

VotedRoles == { k \in DOMAIN Catalog[1].roles :
                  Catalog[1].roles[k].approval.approver_emails # <<>> }

InitVotes ==
  \E k \in VotedRoles :
    LET role == Catalog[1].roles[k]
        approver_emails == role.approval.approver_emails
    IN /\ FrontIdle
       /\ s3_catalog = Catalog
       /\ catalog = Catalog
       /\ nr = [r \in 1..1 |->
                 [IdleNr EXCEPT !.pc = "done", !.role = role,
                                !.inp = [app |-> Catalog[1].app_name,
                                         role |-> role.role_name],
                                !.event = NewRequestEvent(
                                            [app |-> Catalog[1].app_name,
                                             role |-> role.role_name]),
                                !.sent_count = Len(approver_emails),
                                !.outcome = "sent"]]
       /\ requests = [r \in 1..1 |-> create_access_request(role)]
       /\ messages = [t \in (1..1) \X (1..MaxApprovers) |->
                        IF t[2] <= Len(approver_emails)
                        THEN create_approval_message(t[1], approver_emails[t[2]])
                        ELSE NoItem]
       /\ dms = (1..1) \X (1..Len(approver_emails))
       /\ hs = [h \in 1..VoteResponses |-> IdleH]
       /\ provisioned = [r \in 1..1 |-> 0]
       /\ notified = [r \in 1..1 |-> 0]

NextVotes ==
  \/ \E h \in Handlers, t \in TicketIds, act \in Actions : HStart(h, t, act)
  \/ \E h \in Handlers : HGetRequest(h)
  \/ \E h \in Handlers : HVoteRead(h)
  \/ \E h \in Handlers : HVoteWrite(h)
  \/ \E h \in Handlers : HNotifyDenied(h)
  \/ \E h \in Handlers : HCheck(h)
  \/ \E h \in Handlers : HApprovedWrite(h)
  \/ \E h \in Handlers : HInvoke(h)

SpecVotes == InitVotes /\ [][NextVotes]_vars

\* ------------------------------------------- role lookup alone
\* get_role_config on catalogs and requests whose names differ in case.
CaseRequests == 1     \* new_request invocations

CaseRole(role_name, group_id) ==
  [role_name |-> role_name, group_id |-> group_id,
   approval |-> [type |-> "NONE", logic |-> "ANY", threshold |-> 1,
                 approver_emails |-> <<>>]]

CaseCatalogs ==
  { << [app_name |-> <<"A", "w", "s">>,
        roles |-> << CaseRole(<<"R", "o">>, "g1") >>] >>,
    << [app_name |-> <<"A", "W", "S">>,
        roles |-> << CaseRole(<<"r", "o">>, "g1"),
                     CaseRole(<<"R", "O">>, "g2") >>] >>,
    << [app_name |-> <<"a", "w", "s">>,
        roles |-> << CaseRole(<<"q", "a">>, "g1") >>],
       [app_name |-> <<"a", "W", "s">>,
        roles |-> << CaseRole(<<"r", "O">>, "g2") >>] >>,
    << [app_name |-> <<"a", "w", "s", "1">>,
        roles |-> << CaseRole(<<"R", "o">>, "g1") >>],
       [app_name |-> <<"a", "w", "s">>,
        roles |-> << CaseRole(<<"r", "o", "1">>, "g2"),
                     CaseRole(<<"r", "o">>, "g3") >>] >> }

CaseInputs ==
  { [app |-> <<a, w, s>>, role |-> role] :
      a \in {"a", "A"}, w \in {"w", "W"}, s \in {"s", "S", "x"},
      role \in { <<"r", "o">>, <<"R", "o">>, <<"r", "O">>, <<"R", "O">>,
                 <<"r", "o", "1">> } }

InitCase == \E cat \in CaseCatalogs : InitWith(cat, CaseRequests, 0)

NextCase == \E r \in ReqIds, inp \in CaseInputs : NStart(r, inp)

SpecCase == InitCase /\ [][NextCase]_vars

\* ------------------------------------------- the cached catalog
\* New requests served by one handler process while catalog.json is replaced
\* in the bucket.  get_okta_catalog_data returns _okta_catalog_data once it
\* is loaded (lines 74-75); a new process starts with it unset.
CacheRequests == 3    \* new_request invocations

\* A new catalog.json is put into the bucket; running processes keep theirs.
S3Edit ==
  /\ s3_catalog = Catalog
  /\ s3_catalog' = EditedCatalog
  /\ UNCHANGED <<front, catalog, requests, messages, dms, nr, hs, provisioned,
                 notified>>

\* Lines 77-83 in a new process: the catalog is read from the bucket.
ColdStart ==
  /\ catalog # s3_catalog
  /\ catalog' = s3_catalog
  /\ UNCHANGED <<front, s3_catalog, requests, messages, dms, nr, hs, provisioned,
                 notified>>

InitCache == InitWith(Catalog, CacheRequests, 0)

NextCache ==
  \/ \E r \in ReqIds, inp \in RequestInputs : NStart(r, inp)
  \/ S3Edit
  \/ ColdStart

SpecCache == InitCache /\ [][NextCache]_vars

\* ------------------------------------------- new requests over all policies
\* The new_request path alone, started on a catalog whose role Aws/Dev
\* carries any approval block of the bounded sets below.
NewRequests == 1      \* new_request invocations
MaxThreshold == 2     \* largest declared threshold

Emails == <<"a", "b", "c", "d", "e">>

PolicyTypes == {"NONE", "MANAGER", "ACCOUNT_ID", "BOTH", "MANUAL", "CUSTOM"}

ApproverLists ==
  { SubSeq(Emails, 1, k) : k \in 0..MaxApprovers } \cup { <<"a", "a">> }

PolicyApprovals ==
  [type : PolicyTypes, logic : {"ALL", "ANY"}, threshold : 0..MaxThreshold,
   approver_emails : ApproverLists]

PolicyCatalog(approval) ==
  << [app_name |-> <<"A", "w", "s">>,
      roles |-> << [role_name |-> <<"D", "e", "v">>, group_id |-> "g_dev",
                    approval |-> approval] >>] >>

InitNew == \E ap \in PolicyApprovals : InitWith(PolicyCatalog(ap), NewRequests, 0)

NextNew ==
  \/ \E r \in ReqIds, inp \in RequestInputs : NStart(r, inp)
  \/ \E r \in ReqIds : NCreate(r)
  \/ \E r \in ReqIds : NAutoApprove(r)
  \/ \E r \in ReqIds : NInvoke(r)
  \/ \E r \in ReqIds : NDispatch(r)
  \/ \E r \in ReqIds : NDispatchSkip(r)
  \/ \E r \in ReqIds : NDispatchEnd(r)

SpecNew == InitNew /\ [][NextNew]_vars

\* ------------------------------------------- threshold evaluation alone
\* check_approval_threshold as handle_approval_response calls it (line 551),
\* on a request of any policy of the bounded sets with any recorded votes.
MaxVotes == 3         \* longest approvals_received / denials_received

VoteLists == { SubSeq(Emails, 1, k) : k \in 0..MaxVotes }

AggRole(ap) == PolicyCatalog(ap)[1].roles[1]

InitAgg ==
  \E ap \in PolicyApprovals, approvals \in VoteLists, denials \in VoteLists :
    /\ FrontIdle
    /\ s3_catalog = PolicyCatalog(ap)
    /\ catalog = PolicyCatalog(ap)
    /\ nr = [r \in 1..1 |->
              [IdleNr EXCEPT !.pc = "done", !.role = AggRole(ap),
                             !.inp = [app |-> <<"A", "w", "s">>,
                                      role |-> <<"D", "e", "v">>],
                             !.event = NewRequestEvent(
                                         [app |-> <<"A", "w", "s">>,
                                          role |-> <<"D", "e", "v">>]),
                             !.outcome = "sent"]]
    /\ requests = [r \in 1..1 |->
              [create_access_request(AggRole(ap)) EXCEPT
                 !.approvals_received = approvals,
                 !.denials_received = denials]]
    /\ hs = [h \in 1..1 |->
              [IdleH EXCEPT !.pc = "check", !.ticket = <<1, 1>>,
                            !.action = "approve_request",
                            !.event = ClickEvent(<<1, 1>>, "approve_request",
                                                 "a"),
                            !.ack = "you_approved"]]
    /\ messages = [t \in (1..1) \X (1..MaxApprovers) |-> NoItem]
    /\ dms = {<<1, 1>>}
    /\ provisioned = [r \in 1..1 |-> 0]
    /\ notified = [r \in 1..1 |-> 0]

NextAgg ==
  \/ \E h \in Handlers : HCheck(h)
  \/ \E h \in Handlers : HApprovedWrite(h)
  \/ \E h \in Handlers : HInvoke(h)

SpecAgg == InitAgg /\ [][NextAgg]_vars

\* ------------------------------------------- events at the entry point
\* lambda_handler of the approval manager receiving events with any of their
\* fields missing, of another type, from any Slack user and with any button
\* value, next to the whole workflow.
EntryRequests == 1    \* new_request invocations
EntryResponses == 1   \* other invocations

NewRequestEvents ==
  { [NoEvent EXCEPT !.type = "new_request", !.user_id = u, !.channel = c,
                    !.app = a, !.role = ro] :
      u \in {"", "u"}, c \in {"", "D"}, a \in {<<>>, <<"A", "w", "s">>},
      ro \in {<<>>, <<"Q", "a">>, <<"o", "p", "s">>, <<"R", "o">>} }

\* Button values: none, one without ':', and the values of the DMs sent.
ResponseEvents ==
  { [NoEvent EXCEPT !.type = "approval_response", !.user_id = u,
                    !.action_id = act, !.action_value = v,
                    !.response_url = url] :
      u \in {"", "a", "d"}, act \in {""} \cup Actions,
      v \in {<<>>, <<1>>} \cup dms, url \in {"", "url"} }

OtherEvents == { [NoEvent EXCEPT !.type = ty] : ty \in {"none", "ping"} }

\* Lines 602-608: a new_request event without one of its fields.
NReject(r, ev) ==
  /\ nr[r].pc = "idle"
  /\ \A q \in ReqIds : q < r => nr[q].pc # "idle"
  /\ ev.type = "new_request"
  /\ ev.user_id = "" \/ ev.channel = "" \/ ev.app = <<>> \/ ev.role = <<>>
  /\ nr' = [nr EXCEPT ![r] = [@ EXCEPT !.pc = "done", !.event = ev,
                                       !.outcome = "status_400"]]
  /\ UNCHANGED <<front, s3_catalog, catalog, requests, messages, dms, hs,
                 provisioned, notified>>

\* Lines 621-627: an approval_response event without one of its fields.
HReject(h, ev) ==
  /\ hs[h].pc = "idle"
  /\ \A g \in Handlers : g < h => hs[g].pc # "idle"
  /\ ev.type = "approval_response"
  /\ \/ ev.user_id = "" \/ ev.action_id = ""
     \/ ev.action_value = <<>> \/ ev.response_url = ""
  /\ hs' = [hs EXCEPT ![h] = [@ EXCEPT !.pc = "done", !.event = ev,
                                       !.ack = "status_400"]]
  /\ UNCHANGED <<front, s3_catalog, catalog, requests, messages, dms, nr,
                 provisioned, notified>>

\* Lines 631-635: an event of another type.
HUnknownType(h, ev) ==
  /\ hs[h].pc = "idle"
  /\ \A g \in Handlers : g < h => hs[g].pc # "idle"
  /\ ev.type \notin {"new_request", "approval_response"}
  /\ hs' = [hs EXCEPT ![h] = [@ EXCEPT !.pc = "done", !.event = ev,
                                       !.ack = "status_400"]]
  /\ UNCHANGED <<front, s3_catalog, catalog, requests, messages, dms, nr,
                 provisioned, notified>>

\* Line 507: an approval_response event with all its fields whose value does
\* not split at ':' into two parts; the unpacking raises ValueError, which
\* nothing catches, and the invocation fails.
HRaise(h, ev) ==
  /\ hs[h].pc = "idle"
  /\ \A g \in Handlers : g < h => hs[g].pc # "idle"
  /\ ev.type = "approval_response"
  /\ ev.user_id # "" /\ ev.action_id # "" /\ ev.response_url # ""
  /\ ev.action_value # <<>> /\ Len(ev.action_value) # 2
  /\ hs' = [hs EXCEPT ![h] = [@ EXCEPT !.pc = "raised", !.event = ev]]
  /\ UNCHANGED <<front, s3_catalog, catalog, requests, messages, dms, nr,
                 provisioned, notified>>

InitEntry == InitWith(Catalog, EntryRequests, EntryResponses)

NextEntry ==
  \/ \E r \in ReqIds, ev \in NewRequestEvents : NReject(r, ev)
  \/ \E r \in ReqIds, ev \in NewRequestEvents : NStartEv(r, ev)
  \/ \E r \in ReqIds : NCreate(r)
  \/ \E r \in ReqIds : NAutoApprove(r)
  \/ \E r \in ReqIds : NInvoke(r)
  \/ \E r \in ReqIds : NDispatch(r)
  \/ \E r \in ReqIds : NDispatchEnd(r)
  \/ \E h \in Handlers, ev \in ResponseEvents : HReject(h, ev)
  \/ \E h \in Handlers, ev \in OtherEvents : HUnknownType(h, ev)
  \/ \E h \in Handlers, ev \in ResponseEvents : HRaise(h, ev)
  \/ \E h \in Handlers, ev \in ResponseEvents : HStartAs(h, ev)
  \/ \E h \in Handlers : HGetRequest(h)
  \/ \E h \in Handlers : HVoteRead(h)
  \/ \E h \in Handlers : HVoteWrite(h)
  \/ \E h \in Handlers : HNotifyDenied(h)
  \/ \E h \in Handlers : HCheck(h)
  \/ \E h \in Handlers : HApprovedWrite(h)
  \/ \E h \in Handlers : HInvoke(h)

SpecEntry == InitEntry /\ [][NextEntry]_vars

\* ------------------------------------------- the Slack webhook
\* lambda_handler of the event handler.  eh is the sequence of its
\* invocations: the request, the clock at its arrival, the answer and the
\* functions it invoked.
HookCalls == 1        \* webhook requests

MaxSkew == 300        \* line 67: seconds a timestamp may differ from now
Times == {1000, 1001}

NoHeader == [kind |-> "missing", value |-> 0]

\* x-slack-request-timestamp: absent, not a number, or a number of seconds.
Timestamps(now) ==
  {NoHeader, [kind |-> "text", value |-> 0]}
    \cup { [kind |-> "int", value |-> now + d] :
             d \in {0 - MaxSkew - 1, 0 - MaxSkew, 0, MaxSkew, MaxSkew + 1} }

\* Lines 72-77: HMAC-SHA256 of 'v0:timestamp:body' under the secret; distinct
\* keys or messages give distinct digests.
Sign(secret, timestamp, body) == <<secret, timestamp, body>>

\* x-slack-signature: absent, Slack's, or one made without the signing secret.
Signatures(timestamp, body) ==
  {<<>>, Sign("signing_secret", timestamp, body),
         Sign("guess", timestamp, body)}

\* Bodies: a button click, a form without actions, a direct message, a
\* message of a bot, the URL challenge and text that is not JSON.
Bodies == {"click", "form", "message", "bot_message", "challenge", "text"}

HookRequests(now) ==
  UNION { { [timestamp |-> ts, signature |-> sig, body |-> b,
             content_type |-> ct] :
              sig \in UNION { Signatures(t, b) : t \in Timestamps(now) },
              ct \in {"application/x-www-form-urlencoded",
                      "application/json"} } :
          ts \in Timestamps(now), b \in Bodies }

Abs(n) == IF n < 0 THEN 0 - n ELSE n

\* Lines 52-79; "raise" is the ValueError of int(timestamp) at line 67.
verify_slack_signature(event, now) ==
  IF event.timestamp = NoHeader \/ event.signature = <<>> THEN "false"
  ELSE IF event.timestamp.kind # "int" THEN "raise"
  ELSE IF Abs(now - event.timestamp.value) > MaxSkew THEN "false"
  ELSE IF Sign("signing_secret", event.timestamp, event.body)
            = event.signature
       THEN "true" ELSE "false"

\* Lines 81-101: the functions invoked; an exception of invoke is swallowed.
handle_interactivity(body_raw, up) ==
  IF body_raw = "click" /\ up THEN <<"hagrid-approval-manager">> ELSE <<>>

\* Lines 104-129: the answer and the functions invoked; an exception of
\* invoke is not caught.
handle_json_event(body_raw, up) ==
  IF body_raw = "message"
  THEN IF up
       THEN [status |-> "200", invoked |-> <<"hagrid-conversation-manager">>]
       ELSE [status |-> "raised", invoked |-> <<>>]
  ELSE [status |-> "200", invoked |-> <<>>]

\* Lines 132-146.
hook_lambda_handler(event, now, up) ==
  LET verified == verify_slack_signature(event, now)
  IN IF verified = "raise" THEN [status |-> "raised", invoked |-> <<>>]
     ELSE IF verified = "false" THEN [status |-> "401", invoked |-> <<>>]
     ELSE IF event.content_type = "application/x-www-form-urlencoded"
     THEN [status |-> "200",
           invoked |-> handle_interactivity(event.body, up)]
     ELSE handle_json_event(event.body, up)

\* One request to the webhook at time now; up: lambda_client.invoke works.
Webhook(event, now, up) ==
  /\ Len(eh) < HookCalls
  /\ \A i \in DOMAIN eh : eh[i].now <= now
  /\ LET answer == hook_lambda_handler(event, now, up)
     IN eh' = Append(eh, [event |-> event, now |-> now, up |-> up,
                          status |-> answer.status,
                          invoked |-> answer.invoked])
  /\ UNCHANGED <<cm, processed_messages, s3_catalog, catalog, requests,
                 messages, dms, nr, hs, provisioned, notified>>

InitHook == InitWith(Catalog, 0, 0)

NextHook ==
  \E now \in Times, up \in BOOLEAN :
    \E event \in HookRequests(now) : Webhook(event, now, up)

SpecHook == InitHook /\ [][NextHook]_vars

\* ------------------------------------------- the conversation manager
\* lambda_handler of the conversation manager.  processed_messages holds
\* the _processed_messages set of every process that runs the function; cm
\* is the sequence of invocations: the process, the event, the answer and
\* what the handler did.
ConvCalls == 2        \* invocations
ConvInstances == 2    \* processes started

ConvEvents ==
  { [user_id |-> u, channel |-> c, message_ts |-> ts] :
      u \in {"", "u"}, c \in {"", "D"}, ts \in {"", "ts1", "ts2"} }

\* Line 38: a cold start or a restart begins with an empty set.
ConvColdStart ==
  /\ Len(processed_messages) < ConvInstances
  /\ processed_messages' = Append(processed_messages, {})
  /\ UNCHANGED <<eh, cm, s3_catalog, catalog, requests, messages, dms, nr,
                 hs, provisioned, notified>>

\* Lines 270-340 in process p; ai_ok: call_ai returns a response.
conv_lambda_handler(p, event, ai_ok) ==
  LET done(body, saved, ai, sent) ==
        Append(cm, [instance |-> p, event |-> event, body |-> body,
                    saved |-> saved, ai |-> ai, sent |-> sent])
  IN IF event.message_ts # "" /\ event.message_ts \in processed_messages[p]
     THEN done("Duplicate", <<>>, FALSE, <<>>)
     ELSE IF event.user_id = "" \/ event.channel = ""
     THEN done("Missing required fields", <<>>, FALSE, <<>>)
     ELSE IF ai_ok
     THEN done("processed", <<"user", "assistant">>, TRUE, <<"ai_response">>)
     ELSE done("error", <<"user">>, TRUE, <<"Sorry">>)

Conv(p, event, ai_ok) ==
  /\ Len(cm) < ConvCalls
  /\ p \in DOMAIN processed_messages
  /\ cm' = conv_lambda_handler(p, event, ai_ok)
  /\ processed_messages' =
       IF event.message_ts # ""
       THEN [processed_messages EXCEPT ![p] = @ \cup {event.message_ts}]
       ELSE processed_messages
  /\ UNCHANGED <<eh, s3_catalog, catalog, requests, messages, dms, nr, hs,
                 provisioned, notified>>

InitConv == InitWith(Catalog, 0, 0)

NextConv ==
  \/ ConvColdStart
  \/ \E p \in 1..ConvInstances, event \in ConvEvents, ai_ok \in BOOLEAN :
       Conv(p, event, ai_ok)

SpecConv == InitConv /\ [][NextConv]_vars

\* ---------------------------------------------------------------- claims
Terminal == {"approved", "denied"}

Quiescent ==
  /\ \A r \in ReqIds : nr[r].pc \in {"idle", "done"}
  /\ \A h \in Handlers : hs[h].pc \in {"idle", "done"}

\* C1: once a request's stored status is approved or denied, no step changes
\* it again (never back to pending, never from one terminal value to the other).
C1_StatusSetOnce ==
  [][\A r \in ReqIds :
       requests[r].status \in Terminal =>
         requests'[r].status = requests[r].status]_vars

\* C2: the okta-provisioner is invoked at most once per request.
C2_ProvisionAtMostOnce ==
  \A r \in ReqIds : provisioned[r] <= 1

\* C3: when exactly two responses, approve clicks of two distinct approvers of
\* a request that needs 2 approvals under logic ANY, have both been handled
\* (in any interleaving), both votes are in approvals_received, the status is
\* approved and the provisioner was invoked exactly once.
C3_TwoApproversBothCount ==
  \A h1, h2 \in Handlers :
    ( /\ h1 # h2
      /\ hs[h1].pc = "done" /\ hs[h2].pc = "done"
      /\ \A g \in Handlers \ {h1, h2} : hs[g].pc = "idle"
      /\ hs[h1].action = "approve_request" /\ hs[h2].action = "approve_request"
      /\ hs[h1].ticket[1] = hs[h2].ticket[1]
      /\ ApproverOf(h1) # ApproverOf(h2)
      /\ nr[hs[h1].ticket[1]].role.approval.logic = "ANY"
      /\ requests[hs[h1].ticket[1]].required_approvals = 2 )
    => LET request == requests[hs[h1].ticket[1]]
       IN /\ {ApproverOf(h1), ApproverOf(h2)} \subseteq Range(request.approvals_received)
          /\ request.status = "approved"
          /\ provisioned[hs[h1].ticket[1]] = 1

\* C4: a request with a recorded denial has status denied.
C4_DenialsImplyDenied ==
  \A r \in ReqIds :
    (requests[r] # NoItem /\ requests[r].denials_received # <<>>)
      => requests[r].status = "denied"

\* C5: no approver is in both approvals_received and denials_received.
C5_ApprovalsDenialsDisjoint ==
  \A r \in ReqIds :
    requests[r] # NoItem =>
      Range(requests[r].approvals_received)
        \cap Range(requests[r].denials_received) = {}

\* C6: a recorded vote is never removed: approvals_received and
\* denials_received only grow.
C6_VotesOnlyGrow ==
  [][\A r \in ReqIds :
       requests[r] # NoItem =>
         /\ Range(requests[r].approvals_received)
              \subseteq Range(requests'[r].approvals_received)
         /\ Range(requests[r].denials_received)
              \subseteq Range(requests'[r].denials_received)]_vars

\* C7: a response that arrives for a ticket that is already handled is
\* rejected at once: the handler ends without reading or writing the request.
C7_TicketHandledOnce ==
  [][\A h \in Handlers :
       ( /\ hs[h].pc = "idle" /\ hs'[h].pc # "idle"
         /\ messages[hs'[h].ticket].status = "clicked" )
       => hs'[h].pc = "done"]_vars

\* C8: when the same (ticket, decision) was submitted twice and both
\* submissions are handled, at most one of them was accepted as a vote, and
\* the request saw at most one provisioning call and one denial notification.
C8_SameResponseTwice ==
  \A h1, h2 \in Handlers :
    ( /\ h1 # h2
      /\ hs[h1].pc = "done" /\ hs[h2].pc = "done"
      /\ \A g \in Handlers \ {h1, h2} : hs[g].pc = "idle"
      /\ hs[h1].ticket = hs[h2].ticket
      /\ hs[h1].action = hs[h2].action )
    => /\ ~ ( /\ hs[h1].ack \in {"you_approved", "you_denied"}
              /\ hs[h2].ack \in {"you_approved", "you_denied"} )
       /\ provisioned[hs[h1].ticket[1]] <= 1
       /\ notified[hs[h1].ticket[1]] <= 1

\* C9: when all handlers have finished, a request with a recorded denial has
\* status denied.
C9_DenialForcesFinalDenied ==
  Quiescent =>
    \A r \in ReqIds :
      (requests[r] # NoItem /\ Len(requests[r].denials_received) >= 1)
        => requests[r].status = "denied"

\* C10: when all handlers have finished, a request of a logic-ALL policy with
\* no denial is approved exactly if approvals_received is the whole approver
\* set.
C10_AllLogic ==
  Quiescent =>
    \A r \in ReqIds :
      ( /\ requests[r] # NoItem
        /\ nr[r].role.approval.logic = "ALL"
        /\ nr[r].role.approval.type \in {"MANUAL", "ACCOUNT_ID"}
        /\ requests[r].denials_received = <<>> )
      => ( requests[r].status = "approved"
             <=> Range(requests[r].approvals_received)
                   = Range(requests[r].approver_emails) )

TicketsOf(r) == { t \in TicketIds : t[1] = r }

KnownRole(inp) ==
  \E a \in DOMAIN catalog : \E ro \in DOMAIN catalog[a].roles :
    /\ Lower(catalog[a].app_name) = Lower(inp.app)
    /\ Lower(catalog[a].roles[ro].role_name) = Lower(inp.role)

\* C12: a new_request whose application/role is not in the catalog ends at
\* once with the role-not-found message to the requester: no request item,
\* no ticket, no DM and no provisioner invocation exist for it.
C12_UnknownRole ==
  \A r \in ReqIds :
    (nr[r].pc # "idle" /\ ~KnownRole(nr[r].inp)) =>
      /\ nr[r].pc = "done"
      /\ nr[r].outcome = "role_not_found"
      /\ requests[r] = NoItem
      /\ \A t \in TicketsOf(r) : t \notin dms /\ messages[t] = NoItem
      /\ provisioned[r] = 0

C12_Witness ==
  \E r \in ReqIds :
    /\ nr[r].pc = "done"
    /\ nr[r].inp.role = <<"Q", "q">>
    /\ nr[r].outcome = "role_not_found"
    /\ requests[r] = NoItem

\* C13: the "was denied" message is sent to the requester at most once per
\* request, and exactly once when all handlers have finished and a denial is
\* recorded.
C13_DenialNotifiedOnce ==
  \A r \in ReqIds :
    /\ notified[r] <= 1
    /\ (Quiescent /\ requests[r] # NoItem /\ requests[r].denials_received # <<>>)
         => notified[r] = 1

\* C14: a handler whose vote write finds the request already approved or
\* denied leaves the request item as it is and ends without any effect.
C14_LateVoteNoMutation ==
  [][\A h \in Handlers :
       ( /\ hs[h].pc = "vote_write" /\ hs'[h].pc # "vote_write"
         /\ requests[TicketRequest(hs[h].ticket)].status \in Terminal )
       => (requests' = requests /\ hs'[h].pc = "done")]_vars

\* The reference aggregation: denied with any denial, else approved for type
\* NONE, else approved with enough approvals, else pending.
Evaluate(policy, approvals, denials) ==
  IF Len(denials) > 0 THEN "denied"
  ELSE IF policy.type = "NONE" THEN "approved"
  ELSE IF Len(approvals) >= RequiredApprovals(policy) THEN "approved"
  ELSE "pending"

\* C15: the approval type, required count and approver list stored in a
\* request stay those of the policy read when the request was created, and
\* every threshold evaluation gives the result of that policy, whatever the
\* catalog holds by then.
C15_PolicyCaptured ==
  [][\A r \in ReqIds :
       /\ requests'[r] # NoItem =>
            /\ requests'[r].approval_type = nr'[r].role.approval.type
            /\ requests'[r].required_approvals
                 = RequiredApprovals(nr'[r].role.approval)
            /\ requests'[r].approver_emails
                 = nr'[r].role.approval.approver_emails
       /\ \A h \in Handlers :
            (hs[h].pc = "check" /\ hs'[h].pc # "check" /\ hs[h].ticket[1] = r)
              => hs'[h].result = Evaluate(nr[r].role.approval,
                                          requests[r].approvals_received,
                                          requests[r].denials_received)]_vars

\* The catalog now asks for one approval for Aws/Dev, the request created
\* before the edit still needs two and stays pending after one approval.
C15_Witness ==
  \E h \in Handlers :
    /\ catalog = EditedCatalog
    /\ hs[h].pc = "done" /\ hs[h].result = "pending"
    /\ requests[hs[h].ticket[1]].group_id = "g_dev"
    /\ requests[hs[h].ticket[1]].required_approvals = 2
    /\ Len(requests[hs[h].ticket[1]].approvals_received) = 1
    /\ requests[hs[h].ticket[1]].status = "pending"

\* The only response that arrived is h's approve click, it is handled, and
\* the request is one of designated approvers, logic ANY, threshold 1, with
\* a single configured approver.
OneApproverApproved(h) ==
  LET r == hs[h].ticket[1]
  IN /\ hs[h].pc = "done"
     /\ hs[h].action = "approve_request"
     /\ \A g \in Handlers \ {h} : hs[g].pc = "idle"
     /\ nr[r].role.approval.type \in {"MANUAL", "ACCOUNT_ID"}
     /\ nr[r].role.approval.logic = "ANY"
     /\ nr[r].role.approval.threshold = 1
     /\ Len(nr[r].role.approval.approver_emails) = 1

C17_AggregationMatchesReference ==
  \A h \in Handlers :
    hs[h].result # "none" =>
      hs[h].result = Evaluate(nr[hs[h].ticket[1]].role.approval,
                              requests[hs[h].ticket[1]].approvals_received,
                              requests[hs[h].ticket[1]].denials_received)

\* Each of the four outcomes of the reference is reached: here the denial
\* that overrides enough approvals.
C17_Witness ==
  \E h \in Handlers :
    /\ hs[h].result = "denied"
    /\ requests[hs[h].ticket[1]].approval_type = "MANUAL"
    /\ Len(requests[hs[h].ticket[1]].approvals_received)
         >= requests[hs[h].ticket[1]].required_approvals

Designated == {"MANUAL", "ACCOUNT_ID"}

RecognizedTypes == {"NONE", "MANAGER", "BOTH", "MANUAL", "ACCOUNT_ID"}

\* C19: a request whose policy type is not recognized is created pending with
\* required_approvals equal to 1, whatever threshold and logic are declared.
C19_UnknownTypeRequiresOne ==
  \A r \in ReqIds :
    (requests[r] # NoItem /\ nr[r].role.approval.type \notin RecognizedTypes)
      => /\ requests[r].status = "pending"
         /\ requests[r].required_approvals = 1

\* C20: when process_new_request has finished for a request whose policy is
\* not NONE and no approval DM was dispatched for it, the requester was told
\* that no approver could be reached, the request is pending and the
\* provisioner was not invoked.
C20_NoPromptDispatched ==
  \A r \in ReqIds :
    ( /\ nr[r].pc = "done"
      /\ requests[r] # NoItem
      /\ requests[r].approval_type # "NONE"
      /\ TicketsOf(r) \cap dms = {} )
      => /\ nr[r].outcome = "no_approvers"
         /\ requests[r].status = "pending"
         /\ provisioned[r] = 0

\* Every send to a configured approver failed.
C20_Witness ==
  \E r \in ReqIds :
    /\ nr[r].pc = "done"
    /\ requests[r] # NoItem
    /\ requests[r].approval_type = "MANUAL"
    /\ Len(requests[r].approver_emails) >= 2
    /\ TicketsOf(r) \cap dms = {}
    /\ nr[r].outcome = "no_approvers"

\* C21: a step in which an outbound effect fails (the okta-provisioner
\* invocation, the update of the approver's DM, the denial message to the
\* requester) leaves every request item as it was: an approved request stays
\* approved with the votes recorded in it.
C21_EffectFailureKeepsLedger ==
  [][ /\ \A h \in Handlers :
           \/ hs[h].pc = "invoke" /\ hs'[h].pc = "failed"
           \/ hs[h].ack # "lost" /\ hs'[h].ack = "lost"
           \/ hs[h].pc = "notify_denied" /\ hs'[h].pc = "done"
                /\ notified' = notified
           => requests' = requests
      /\ \A r \in ReqIds :
           (nr[r].pc = "invoke" /\ nr'[r].pc = "failed")
             => /\ requests' = requests
                /\ requests'[r].status = "approved" ]_vars

\* The invocation failed after the approved write of a voted request.
C21_Witness ==
  \E h \in Handlers :
    /\ hs[h].pc = "failed"
    /\ requests[hs[h].ticket[1]].status = "approved"
    /\ requests[hs[h].ticket[1]].approvals_received # <<>>
    /\ provisioned[hs[h].ticket[1]] = 0

\* The list of the request that h's decision goes to, as stored now.
StoredVotes(h) ==
  IF hs[h].action = "approve_request"
  THEN requests[hs[h].ticket[1]].approvals_received
  ELSE requests[hs[h].ticket[1]].denials_received

\* C22: a vote is written only when the request item is still the one the
\* handler read: it is still pending and the list the vote goes to is the
\* list that was read (a handler that finds it changed re-reads instead).
C22_VoteWriteIsConditional ==
  [][\A h \in Handlers :
       (hs[h].pc = "vote_write" /\ hs'[h].pc # "vote_write")
         => /\ requests[hs[h].ticket[1]].status = "pending"
            /\ hs[h].rd = AppendIfAbsent(StoredVotes(h), ApproverOf(h))]_vars

\* C24: a response whose approver is already in approvals_received or
\* denials_received when its vote is to be recorded is answered as already
\* recorded and changes nothing: the request item, the notifications and the
\* provisioner invocations stay as they are.
C24_DuplicateVoterNoEffect ==
  [][\A h \in Handlers :
       LET r == hs[h].ticket[1]
       IN ( /\ hs[h].pc = "vote_write" /\ hs'[h].pc # "vote_write"
            /\ \/ Contains(requests[r].approvals_received, ApproverOf(h))
               \/ Contains(requests[r].denials_received, ApproverOf(h)) )
          => /\ requests' = requests
             /\ hs'[h].pc = "done"
             /\ hs'[h].ack = "already_responded"]_vars

\* C27: the result a handler acts on after recording its vote is the
\* threshold evaluation of the item its own write produced.
C27_ResultOfOwnWrite ==
  [][\A h \in Handlers :
       (hs[h].pc = "check" /\ hs'[h].pc # "check")
         => hs'[h].result = check_approval_threshold(hs[h].wrote)]_vars

\* The approvers whose approve click on a ticket of request r has arrived.
ApproveSubmitted(r) ==
  { ApproverOf(h) : h \in { g \in Handlers : /\ hs[g].pc # "idle"
                                               /\ hs[g].ticket[1] = r } }

\* C23: once as many approvers as the request requires have submitted
\* approve (and nobody denies), the request eventually has status approved
\* and the okta-provisioner has been invoked for it.
C23_ApprovedEventually ==
  \A r \in 1..LiveRequests :
    ( /\ requests[r] # NoItem
      /\ Cardinality(ApproveSubmitted(r)) >= requests[r].required_approvals )
    ~> ( /\ requests[r].status = "approved"
         /\ provisioned[r] >= 1 )

\* C25: a response whose ticket item or request item does not exist creates
\* no ticket item and no request item, adds no vote and fires no effect.
C25_UnknownTicketRecordsNothing ==
  [][\A h \in Handlers :
       /\ ( /\ hs[h].pc = "idle" /\ hs'[h].pc # "idle"
            /\ \/ messages[hs'[h].ticket] = NoItem
               \/ requests[hs'[h].ticket[1]] = NoItem )
          => /\ messages[hs'[h].ticket] = NoItem
                  => messages'[hs'[h].ticket] = NoItem
             /\ requests' = requests
       /\ ( /\ hs[h].pc \notin {"idle", "done"}
            /\ messages[hs[h].ticket].request_id = 0 )
          => /\ requests' = requests
             /\ provisioned' = provisioned
             /\ notified' = notified]_vars

NoDuplicates(seq) == Cardinality(Range(seq)) = Len(seq)

\* C26: approvals_received holds no approver twice and denials_received
\* holds no approver twice, whatever responses arrived and however their
\* handlers interleaved.
C26_NoDuplicateVotes ==
  \A r \in ReqIds :
    requests[r] # NoItem =>
      /\ NoDuplicates(requests[r].approvals_received)
      /\ NoDuplicates(requests[r].denials_received)

\* Two clicks of the same approver were both written as votes.
C26_Witness ==
  \E h1, h2 \in Handlers :
    /\ h1 # h2
    /\ hs[h1].ticket = hs[h2].ticket
    /\ hs[h1].action = "approve_request" /\ hs[h2].action = "approve_request"
    /\ hs[h1].ack = "you_approved" /\ hs[h2].ack = "you_approved"
    /\ requests[hs[h1].ticket[1]].approvals_received = <<ApproverOf(h1)>>

\* Upper- and lower-case forms of one letter.
CasePairs == { <<"a", "A">>, <<"d", "D">>, <<"o", "O">>, <<"q", "Q">>,
               <<"r", "R">>, <<"s", "S">>, <<"w", "W">> }

SameIgnoringCase(s, t) ==
  /\ Len(s) = Len(t)
  /\ \A i \in DOMAIN s :
       s[i] = t[i] \/ <<s[i], t[i]>> \in CasePairs \/ <<t[i], s[i]>> \in CasePairs

\* The catalog positions (application, role) whose names are those of inp up
\* to the case of their letters.
CaseMatches(inp) ==
  { p \in { <<a, k>> : a \in DOMAIN catalog, k \in 1..2 } :
      /\ p[2] \in DOMAIN catalog[p[1]].roles
      /\ SameIgnoringCase(catalog[p[1]].app_name, inp.app)
      /\ SameIgnoringCase(catalog[p[1]].roles[p[2]].role_name, inp.role) }

FirstMatch(inp) ==
  CHOOSE p \in CaseMatches(inp) :
    \A q \in CaseMatches(inp) :
      p[1] < q[1] \/ (p[1] = q[1] /\ p[2] <= q[2])

\* C28: the role a new request resolves to is the first catalog entry whose
\* application and role names equal the requested ones up to letter case,
\* the same for every spelling, and the lookup fails only when there is none.
C28_LookupIgnoresCase ==
  \A r \in ReqIds :
    nr[r].pc # "idle" =>
      IF CaseMatches(nr[r].inp) = {}
      THEN nr[r].role = NoRole /\ nr[r].outcome = "role_not_found"
      ELSE nr[r].role = catalog[FirstMatch(nr[r].inp)[1]]
                          .roles[FirstMatch(nr[r].inp)[2]]

\* A request spelled in another case than the catalog entry it resolved to.
C28_Witness ==
  \E r \in ReqIds :
    /\ nr[r].pc = "create"
    /\ nr[r].role.group_id = "g2"
    /\ nr[r].inp.app # catalog[FirstMatch(nr[r].inp)[1]].app_name
    /\ nr[r].inp.role # nr[r].role.role_name

\* The count of a designated-approvers policy, as amended in C18.
DesignatedCount(ap) ==
  IF ap.logic = "ALL"
  THEN IF ap.approver_emails = <<>> THEN 1 ELSE Len(ap.approver_emails)
  ELSE IF ap.threshold > 0 THEN ap.threshold ELSE 1

\* C29: a request of a policy of type BOTH stores the required_approvals of
\* the designated approvers alone: the count a MANUAL policy with the same
\* logic, threshold and approvers gets, with nothing added for the manager.
C29_BothCountsDesignatedOnly ==
  \A r \in ReqIds :
    (requests[r] # NoItem /\ nr[r].role.approval.type = "BOTH")
      => /\ requests[r].approval_type = "BOTH"
         /\ requests[r].required_approvals = DesignatedCount(nr[r].role.approval)
         /\ requests[r].required_approvals
              = create_access_request(
                  [nr[r].role EXCEPT !.approval.type = "MANUAL"]).required_approvals
         /\ requests[r].approver_emails = nr[r].role.approval.approver_emails

\* A BOTH request of logic ALL with two designated approvers needs two.
C29_Witness ==
  \E r \in ReqIds :
    /\ requests[r] # NoItem
    /\ requests[r].approval_type = "BOTH"
    /\ nr[r].role.approval.logic = "ALL"
    /\ Len(requests[r].approver_emails) = 2
    /\ requests[r].required_approvals = 2
    /\ nr[r].pc = "done"

RefreshInterval == 2  \* invocations a process may serve from an outdated copy

\* C30: after catalog.json has changed, at most RefreshInterval new requests
\* are resolved against the copy loaded before the change.
C30_CacheRefreshed ==
  Cardinality({ r \in ReqIds : nr[r].stale }) <= RefreshInterval

\* C34: a request stored as approved is of type NONE or has at least
\* required_approvals approvers in approvals_received.
C34_ApprovedHasEnoughApprovals ==
  \A r \in ReqIds :
    (requests[r] # NoItem /\ requests[r].status = "approved")
      => \/ requests[r].approval_type = "NONE"
         \/ Cardinality(Range(requests[r].approvals_received))
              >= requests[r].required_approvals

\* C35: no request has both an okta-provisioner invocation and a denial
\* message to its requester.
C35_ProvisionExcludesDenial ==
  \A r \in ReqIds : ~ (provisioned[r] >= 1 /\ notified[r] >= 1)

\* C36: the okta-provisioner is invoked for a request only when its item is
\* in the requests table with status approved at that moment, and an approval
\* DM is sent only for a request whose item is in the table.
C36_EffectsOnlyForStoredRequest ==
  [][\A r \in ReqIds :
       /\ provisioned'[r] > provisioned[r]
            => requests[r] # NoItem /\ requests[r].status = "approved"
       /\ (TicketsOf(r) \cap dms') # (TicketsOf(r) \cap dms)
            => requests[r] # NoItem]_vars

\* The approval DMs delivered for request r.
Dispatched(r) == TicketsOf(r) \cap dms

\* C38: when process_new_request has returned, a pending request with at
\* least one delivered approval DM requires no more approvals than the
\* number of approvers who got one.
C38_RequiredWithinDispatched ==
  \A r \in ReqIds :
    ( /\ nr[r].pc = "done"
      /\ requests[r] # NoItem
      /\ requests[r].status = "pending"
      /\ Dispatched(r) # {} )
      => requests[r].required_approvals
           <= Cardinality({ TicketApprover(t) : t \in Dispatched(r) })

\* C39: a handler whose DM shows "You approved" or "You denied" has its
\* approver in the approvals_received, respectively denials_received, of the
\* request.
C39_AckOnlyForStoredVote ==
  \A h \in Handlers :
    LET r == hs[h].ticket[1]
    IN /\ hs[h].ack = "you_approved"
            => /\ requests[r] # NoItem
               /\ Contains(requests[r].approvals_received, ApproverOf(h))
       /\ hs[h].ack = "you_denied"
            => /\ requests[r] # NoItem
               /\ Contains(requests[r].denials_received, ApproverOf(h))

\* C31: the entry point of the approval manager answers 400 to a new_request
\* or approval_response event that misses a required field and to an event
\* of another type, and such an invocation changes no request or ticket and
\* sends nothing; an event of a known type with all its fields is answered
\* 200: its invocation is not rejected and does not fail.
MissingField(ev) ==
  \/ ev.type = "new_request"
       /\ (ev.user_id = "" \/ ev.channel = "" \/ ev.app = <<>>
           \/ ev.role = <<>>)
  \/ ev.type = "approval_response"
       /\ (ev.user_id = "" \/ ev.action_id = "" \/ ev.action_value = <<>>
           \/ ev.response_url = "")
  \/ ev.type \notin {"new_request", "approval_response"}

C31_EntryPointStatus ==
  /\ [](\A r \in ReqIds : nr[r].pc # "idle" =>
          (nr[r].outcome = "status_400") = MissingField(nr[r].event))
  /\ [](\A h \in Handlers : hs[h].pc # "idle" =>
          /\ (hs[h].ack = "status_400") = MissingField(hs[h].event)
          /\ hs[h].pc # "raised")
  /\ [][(\/ \E r \in ReqIds : nr'[r].outcome = "status_400"
                                /\ nr[r].outcome # "status_400"
         \/ \E h \in Handlers : hs'[h].ack = "status_400"
                                  /\ hs[h].ack # "status_400")
          => UNCHANGED <<requests, messages, dms, provisioned,
                         notified>>]_vars

\* C37: every identity in a request's approvals or denials is one of the
\* approver_emails stored with the request.
C37_VotesOnlyFromApprovers ==
  \A r \in ReqIds :
    requests[r] # NoItem =>
      Range(requests[r].approvals_received)
        \cup Range(requests[r].denials_received)
          \subseteq Range(requests[r].approver_emails)

\* C32: a webhook request whose signature headers are missing, whose
\* timestamp is more than 300 seconds from now or whose signature does not
\* match is answered 401 and invokes no function; a verified button click
\* invokes the approval manager once and is answered 200.
Unauthenticated(call) ==
  \/ call.event.timestamp = NoHeader
  \/ call.event.signature = <<>>
  \/ call.event.timestamp.kind = "int"
       /\ Abs(call.now - call.event.timestamp.value) > 300
  \/ call.event.signature
       # Sign("signing_secret", call.event.timestamp, call.event.body)

C32_UnauthenticatedRoutesNothing ==
  \A i \in DOMAIN eh :
    /\ Unauthenticated(eh[i])
         => eh[i].status = "401" /\ eh[i].invoked = <<>>
    /\ (/\ ~ Unauthenticated(eh[i])
        /\ eh[i].event.content_type = "application/x-www-form-urlencoded"
        /\ eh[i].event.body = "click")
         => /\ eh[i].status = "200"
            /\ eh[i].invoked = <<"hagrid-approval-manager">>

\* C33: of two deliveries of one message_ts to the conversation manager the
\* second is answered 'Duplicate' and saves no message, calls no AI and
\* sends no reply, whichever processes handle them.
C33_ProcessedAtMostOnce ==
  \A i, j \in DOMAIN cm :
    (/\ i < j
     /\ cm[i].event.message_ts # ""
     /\ cm[i].event.message_ts = cm[j].event.message_ts)
      => /\ cm[j].body = "Duplicate"
         /\ cm[j].saved = <<>>
         /\ ~ cm[j].ai
         /\ cm[j].sent = <<>>

====
